---- MODULE Spec2Model ----
(***************************************************************************)
(* Model of the sync queue middleware of em                                *)
(* (src/src/redux-middleware/syncQueue.ts).                                 *)
(*                                                                         *)
(* and of the tree layout of em (linearizeTree, the positioning pass,      *)
(* chain) and its undo history.                                            *)
(*                                                                         *)
(* Specifications:                                                         *)
(*   Spec       the middleware as a state machine: actions are dispatched, *)
(*              the debounce timer runs and fires flushQueue, the pull and *)
(*              sync promises settle in any order.                         *)
(*   SpecMerge  the pure part of flushQueue (filter by destination, reduce *)
(*              with mergeBatch) applied to queues drawn from bounded sets.*)
(*   SpecTree   linearizeTree applied to stores drawn from bounded sets.   *)
(*   SpecChain  chain applied to context chains and paths drawn from       *)
(*              bounded sets.                                              *)
(*   SpecLayout the positioning pass of LayoutTree applied to linearized   *)
(*              trees and size caches drawn from bounded sets.             *)
(*   SpecUndo   edits, undoAction and redoAction on a store with history.  *)
(*   SpecSize   the size cache of useSizeTracking with its removal timeouts.*)
(*   SpecDispatch the middleware body with its own isSyncing dispatches.   *)
(*   SpecLive   the middleware with the fairness of the event loop.        *)
(*   SpecSibling nextSibling applied to siblings drawn from bounded sets.  *)
(***************************************************************************)
EXTENDS Integers, Sequences, FiniteSets, TLC

VARIABLES
  syncQueue,   \* state.syncQueue: the queued SyncBatches, in dispatch order
  isSyncing,   \* state.isSyncing
  timer,       \* ms left on the lodash debounce timer, -1 when no timer is set
  sinceCall,   \* ms since flushQueueDebounced was last called (capped at debounceDelay)
  flushes,     \* one record per run of flushQueue, in the order they started
  nextId,      \* identity of the next batch object to be created
  logged,      \* number of console.error('flushQueue error') calls
  mq,          \* SpecMerge: the queue handed to flushQueue
  mres,        \* SpecMerge: <<the merged batches flushQueue built>>, empty before it ran
  store,       \* SpecTree: the state linearizeTree reads
  treeThoughts,\* SpecTree: <<the TreeThought list linearizeTree returned>>, empty before it ran
  chainIn,     \* SpecChain: the arguments of chain
  chainOut,    \* SpecChain: <<the path chain returned>>, empty before it ran
  layoutIn,    \* SpecLayout: treeThoughts, sizes and fontSize of one render
  positioned,  \* SpecLayout: <<treeThoughtsPositioned>>, empty before it ran
  history,     \* SpecUndo: the thoughts with their undo and redo patches
  sizing,      \* SpecSize: the size cache with its removal timers
  dispatched,  \* SpecDispatch: the last dispatch as it passed the middleware
  sibling      \* SpecSibling: the arguments of nextSibling and <<what it returned>>

vars == <<syncQueue, isSyncing, timer, sinceCall, flushes, nextId, logged, mq, mres,
          store, treeThoughts, chainIn, chainOut, layoutIn, positioned, history, sizing,
          dispatched, sibling>>

middlewareVars == <<syncQueue, isSyncing, timer, sinceCall, flushes, nextId, logged>>

mergeVars == <<mq, mres>>

treeVars == <<store, treeThoughts>>

chainVars == <<chainIn, chainOut>>

layoutVars == <<layoutIn, positioned>>

undoVars == <<history>>

sizeVars == <<sizing, dispatched, sibling>>

\* the variables of the specifications of the layout and the history
viewVars == <<treeVars, chainVars, layoutVars, undoVars, sizeVars>>

----------------------------------------------------------------------------
(* Bounds *)

\* number of batches created in one behaviour of Spec
MaxBatches == 2

\* ms that pass in one Tick
TickStep == 50

\* longest queue drawn by SpecMerge
MaxLen == 2

(* Program constants *)

debounceDelay == 100

----------------------------------------------------------------------------
(* Values *)

Keys == {"x", "y"}

Vals == {"v1", "v2"}

\* a JS flag that may be absent: local?: boolean
Flags == {"true", "false", "undefined"}

\* an Index with no entries, also the {} that seeds reduce
NoUpdates == [k \in {} |-> "v1"]

EmptyObject == NoUpdates

\* all Index values over a set of keys
Indexes(ks) == UNION {[d -> Vals] : d \in SUBSET ks}

PendingDelete(ctx, c) == [context |-> ctx, child |-> c]

----------------------------------------------------------------------------
(* mergeBatch, syncBatch and the pure part of flushQueue *)

\* JS truthiness of a flag: filter(batch => batch.local)
Truthy(flag) == flag = "true"

\* flag !== false
NotFalse(flag) == flag # "false"

\* { ...a, ...b } on two Index objects
spread(a, b) ==
  [k \in (DOMAIN a) \cup (DOMAIN b) |-> IF k \in DOMAIN b THEN b[k] ELSE a[k]]

\* accum.field, where the field is absent on {}
IndexOf(obj, field) == IF field \in DOMAIN obj THEN obj[field] ELSE NoUpdates

\* accum.pendingDeletes || []
ListOf(obj, field) == IF field \in DOMAIN obj THEN obj[field] ELSE <<>>

\* accum.flag on a merged batch, absent on {}
FlagOf(obj, field) == IF field \in DOMAIN obj THEN obj[field] ELSE "undefined"

\* the first value of a key wins
mergeBatch_FirstWins(accum, batch) ==
  [ contextIndexUpdates |-> spread(batch.contextIndexUpdates, IndexOf(accum, "contextIndexUpdates")),
    thoughtIndexUpdates |-> spread(batch.thoughtIndexUpdates, IndexOf(accum, "thoughtIndexUpdates")),
    recentlyEdited      |-> spread(batch.recentlyEdited, IndexOf(accum, "recentlyEdited")),
    pendingDeletes      |-> ListOf(accum, "pendingDeletes") \o batch.pendingDeletes,
    updates             |-> spread(IndexOf(accum, "updates"), batch.updates),
    local               |-> IF NotFalse(batch.local) THEN "true" ELSE "false",
    remote              |-> IF NotFalse(batch.remote) THEN "true" ELSE "false" ]

\* a flag that is true once any merged batch had it true
mergeBatch_Sticky(accum, batch) ==
  [ contextIndexUpdates |-> spread(IndexOf(accum, "contextIndexUpdates"), batch.contextIndexUpdates),
    thoughtIndexUpdates |-> spread(IndexOf(accum, "thoughtIndexUpdates"), batch.thoughtIndexUpdates),
    recentlyEdited      |-> spread(IndexOf(accum, "recentlyEdited"), batch.recentlyEdited),
    pendingDeletes      |-> ListOf(accum, "pendingDeletes") \o batch.pendingDeletes,
    updates             |-> spread(IndexOf(accum, "updates"), batch.updates),
    local               |-> IF FlagOf(accum, "local") = "true" \/ NotFalse(batch.local)
                            THEN "true" ELSE "false",
    remote              |-> IF FlagOf(accum, "remote") = "true" \/ NotFalse(batch.remote)
                            THEN "true" ELSE "false" ]

mergeBatch(accum, batch) ==
  [ contextIndexUpdates |-> spread(IndexOf(accum, "contextIndexUpdates"), batch.contextIndexUpdates),
    thoughtIndexUpdates |-> spread(IndexOf(accum, "thoughtIndexUpdates"), batch.thoughtIndexUpdates),
    recentlyEdited      |-> spread(IndexOf(accum, "recentlyEdited"), batch.recentlyEdited),
    pendingDeletes      |-> ListOf(accum, "pendingDeletes") \o batch.pendingDeletes,
    updates             |-> spread(IndexOf(accum, "updates"), batch.updates),
    local               |-> IF NotFalse(batch.local) THEN "true" ELSE "false",
    remote              |-> IF NotFalse(batch.remote) THEN "true" ELSE "false" ]

RECURSIVE reduceMerge(_, _)
\* batches.reduce(mergeBatch, accum)
reduceMerge(batches, accum) ==
  IF batches = <<>> THEN accum
  ELSE reduceMerge(Tail(batches), mergeBatch(accum, Head(batches)))

IsLocal(batch) == Truthy(batch.local)

IsRemote(batch) == Truthy(batch.remote)

\* no filter by data provider
localBatches_All(queue) == queue

localBatches(queue) == SelectSeq(queue, IsLocal)

remoteBatches(queue) == SelectSeq(queue, IsRemote)

localMergedBatch(queue) == reduceMerge(localBatches(queue), EmptyObject)

remoteMergedBatch(queue) == reduceMerge(remoteBatches(queue), EmptyObject)

\* Object.keys(merged).length > 0
HasKeys(obj) == DOMAIN obj # {}

\* the arguments syncBatch passes to sync
syncBatch(batch) ==
  [ thoughtIndexUpdates |-> batch.thoughtIndexUpdates,
    contextIndexUpdates |-> batch.contextIndexUpdates,
    recentlyEdited      |-> batch.recentlyEdited,
    local               |-> NotFalse(batch.local),
    remote              |-> NotFalse(batch.remote),
    updates             |-> batch.updates ]

----------------------------------------------------------------------------
(* SpecMerge: flushQueue's filter and merge on queues drawn from bounded sets *)

Batch(tiu, ciu, re, up, pd, l, r) ==
  [ thoughtIndexUpdates |-> tiu, contextIndexUpdates |-> ciu, recentlyEdited |-> re,
    updates |-> up, pendingDeletes |-> pd, local |-> l, remote |-> r ]

\* batches that differ in their updates, all bound for both destinations
UpdateBatches ==
  { Batch(tiu, ciu, re, NoUpdates, <<>>, "true", "true") :
      tiu \in Indexes(Keys), ciu \in Indexes({"x"}), re \in Indexes({"x"}) }

\* batches that differ in their destination flags
FlagBatches ==
  { Batch(tiu, NoUpdates, NoUpdates, NoUpdates, <<>>, l, r) :
      tiu \in Indexes({"x"}), l \in Flags, r \in Flags }

SeqsUpTo(S, n) == UNION {[1..k -> S] : k \in 0..n}

MergeQueues == SeqsUpTo(UpdateBatches, MaxLen) \cup SeqsUpTo(FlagBatches, MaxLen)

IdleTree == store = <<>> /\ treeThoughts = <<>>

IdleChain == chainIn = <<>> /\ chainOut = <<>>

IdleLayout == layoutIn = <<>> /\ positioned = <<>>

IdleUndo == history = <<>>

IdleSize == sizing = <<>> /\ dispatched = <<>> /\ sibling = <<>>

IdleMerge == mq = <<>> /\ mres = <<>>

InitMiddleware ==
  /\ syncQueue = <<>>
  /\ isSyncing = FALSE
  /\ timer = -1
  /\ sinceCall = debounceDelay
  /\ flushes = <<>>
  /\ nextId = 1
  /\ logged = 0

InitMerge ==
  /\ mq \in MergeQueues
  /\ mres = <<>>
  /\ InitMiddleware
  /\ IdleTree /\ IdleChain /\ IdleLayout /\ IdleUndo /\ IdleSize

\* flushQueue lines 86-92 applied to mq
MergeStep ==
  /\ mres = <<>>
  /\ mres' = << [ local  |-> localMergedBatch(mq),
                  remote |-> remoteMergedBatch(mq) ] >>
  /\ UNCHANGED <<mq, middlewareVars, viewVars>>

NextMerge == MergeStep

SpecMerge == InitMerge /\ [][NextMerge]_vars

----------------------------------------------------------------------------
(* Spec: the middleware *)

\* selectors/hasSyncs: the state has queued updates
hasSyncs(queue) == Len(queue) > 0

\* reducer of { type: 'clearQueue' }
clearQueue(queue) == <<>>

\* reducer of a mutating action: the batch is appended to state.syncQueue
pushBatch(queue, batch) == Append(queue, batch)

\* reducer of { type: 'isSyncing', value }
setIsSyncing(value) == value

\* the batches mutating actions queue
ActionBatches ==
  { Batch(tiu, NoUpdates, NoUpdates, NoUpdates, pd, l, r) :
      tiu \in {[x \in {"x"} |-> "v1"]},
      pd \in {<<>>, <<PendingDelete("a", "c"), PendingDelete("b", "d")>>},
      l \in {"true", "false"}, r \in {"true", "false"} }

\* the batches the finalizing existingThoughtDelete queues
DeleteBatches ==
  { Batch([x \in {"x"} |-> "v2"], NoUpdates, NoUpdates, NoUpdates, <<>>, "true", "true") }

WithId(batch, id) == [k \in (DOMAIN batch) \cup {"id"} |-> IF k = "id" THEN id ELSE batch[k]]

RECURSIVE WithIds(_, _)
WithIds(batches, id) ==
  IF batches = <<>> THEN <<>>
  ELSE <<WithId(Head(batches), id)>> \o WithIds(Tail(batches), id + 1)

RECURSIVE flat(_)
\* syncQueue.map(batch => batch.pendingDeletes || []).flat()
flat(queue) ==
  IF queue = <<>> THEN <<>> ELSE Head(queue).pendingDeletes \o flat(Tail(queue))

\* keyValueBy(pendingDeletes, ({ context }) => ({ [hashContext(context)]: context })):
\* one entry per distinct context
pendingContexts(pendingDeletes) ==
  {pendingDeletes[i].context : i \in 1..Len(pendingDeletes)}

\* flushDeletes after the await: one existingThoughtDelete per pending delete
finalizingDeletes(pendingDeletes) ==
  [i \in 1..Len(pendingDeletes) |->
     [ type |-> "existingThoughtDelete",
       context |-> pendingDeletes[i].context,
       thoughtRanked |-> pendingDeletes[i].child ]]

\* flushDeletes without the await: the deletes go out with the pull
flushDeletes_NoAwait(queue) ==
  LET pendingDeletes == flat(queue) IN
  [ pull |-> IF Len(pendingDeletes) > 0 THEN "pending" ELSE "none",
    pending |-> pendingContexts(pendingDeletes),
    maxDepth |-> IF Len(pendingDeletes) > 0 THEN "Infinity" ELSE "none",
    pendingDeletes |-> pendingDeletes,
    deleted |-> finalizingDeletes(pendingDeletes) ]

\* flushDeletes up to its await: the pull it dispatches, if any, and the
\* finalizing deletes dispatched so far (none before the pull settles)
flushDeletes(queue) ==
  LET pendingDeletes == flat(queue) IN
  IF Len(pendingDeletes) > 0
  THEN [ pull |-> "pending",
         pending |-> pendingContexts(pendingDeletes),
         maxDepth |-> "Infinity",
         pendingDeletes |-> pendingDeletes,
         deleted |-> <<>> ]
  ELSE [ pull |-> "none", pending |-> {}, maxDepth |-> "none", pendingDeletes |-> <<>>,
         deleted |-> <<>> ]

\* dispatch(syncBatch(merged)) when the merged batch has keys, else false
syncDispatch(merged) == IF HasKeys(merged) THEN "pending" ELSE "none"

\* a timer that is not restarted by a call while it is pending
debounceCall_NoRestart(t) == IF t = -1 THEN debounceDelay ELSE t

\* the timer after a call of flushQueueDebounced: lodash restarts the wait
debounceCall(t) == debounceDelay

\* a callback that leaves the queue as it is
queueAfterFlush_Keep(queue) == queue

\* the queue after the debounced callback: dispatch({ type: 'clearQueue' })
queueAfterFlush(queue) == clearQueue(queue)

\* a catch that puts the failed entries back
queueAfterCatch_Retry(queue, flush) == queue \o flush.snap

\* the queue after .catch((e) => console.error(...)): nothing is put back
queueAfterCatch(queue, flush) == queue

\* isSyncing after the middleware saw an action that is not 'isSyncing'
syncingAfter(queue, syncing) == IF hasSyncs(queue) THEN setIsSyncing(TRUE) ELSE syncing

\* the timer after the middleware saw an action that is not 'isSyncing'
timerAfter(queue, t) == IF hasSyncs(queue) THEN debounceCall(t) ELSE t

sinceCallAfter(queue, c) == IF hasSyncs(queue) THEN 0 ELSE c

Init ==
  /\ InitMiddleware
  /\ mq = <<>>
  /\ mres = <<>>
  /\ IdleTree /\ IdleChain /\ IdleLayout /\ IdleUndo /\ IdleSize

\* the actions dispatched by the application: mutating ones carry the batch
\* their reducer queues, the others queue nothing
Actions ==
  {[type |-> "updateThoughts", batch |-> b] : b \in ActionBatches} \cup {[type |-> "other"]}

\* next(action): the root reducer's effect on state.syncQueue
reduceQueue(queue, action, id) ==
  IF action.type = "updateThoughts" THEN pushBatch(queue, WithId(action.batch, id)) ELSE queue

\* an action of the application passes the middleware: next(action), then the
\* hasSyncs test, isSyncing and the debounced call
Dispatch(action) ==
  /\ action.type = "updateThoughts" => nextId <= MaxBatches
  /\ LET queue == reduceQueue(syncQueue, action, nextId) IN
       /\ syncQueue' = queue
       /\ isSyncing' = syncingAfter(queue, isSyncing)
       /\ timer' = timerAfter(queue, timer)
       /\ sinceCall' = sinceCallAfter(queue, sinceCall)
  /\ nextId' = IF action.type = "updateThoughts" THEN nextId + 1 ELSE nextId
  /\ UNCHANGED <<flushes, logged, mergeVars, viewVars>>

Min(a, b) == IF a < b THEN a ELSE b

Max(a, b) == IF a > b THEN a ELSE b

\* time passes; an expired timer runs its callback before more time passes
Tick ==
  /\ timer # 0
  /\ timer' = IF timer = -1 THEN -1 ELSE Max(0, timer - TickStep)
  /\ sinceCall' = Min(debounceDelay, sinceCall + TickStep)
  /\ timer' # timer \/ sinceCall' # sinceCall
  /\ UNCHANGED <<syncQueue, isSyncing, flushes, nextId, logged, mergeVars, viewVars>>

\* the debounced callback: dispatch(flushQueue()) runs to its return, then clearQueue
flushQueueDebounced ==
  /\ timer = 0
  /\ timer' = -1
  /\ IF Len(syncQueue) = 0
     THEN /\ isSyncing' = setIsSyncing(FALSE)
          /\ UNCHANGED <<syncQueue, flushes>>
     ELSE LET fd == flushDeletes(syncQueue)
              lm == localMergedBatch(syncQueue)
              rm == remoteMergedBatch(syncQueue)
              ls == syncDispatch(lm)
              rs == syncDispatch(rm)
              nothing == ls = "none" /\ rs = "none"
          IN /\ flushes' = Append(flushes,
                  [ snap |-> syncQueue,
                    pull |-> fd.pull,
                    pending |-> fd.pending,
                    maxDepth |-> fd.maxDepth,
                    pendingDeletes |-> fd.pendingDeletes,
                    deleted |-> fd.deleted,
                    local |-> ls,
                    remote |-> rs,
                    localArgs |-> IF ls = "pending" THEN <<syncBatch(lm)>> ELSE <<>>,
                    remoteArgs |-> IF rs = "pending" THEN <<syncBatch(rm)>> ELSE <<>>,
                    promise |-> IF nothing THEN "resolved" ELSE "pending" ])
             /\ syncQueue' = queueAfterFlush(syncQueue)
             /\ isSyncing' = IF nothing THEN setIsSyncing(FALSE) ELSE isSyncing
  /\ UNCHANGED <<sinceCall, nextId, logged, mergeVars, viewVars>>

\* the pull of flush i resolves: flushDeletes dispatches the finalizing deletes
PullResolves(i, news) ==
  /\ i \in 1..Len(flushes)
  /\ flushes[i].pull = "pending"
  /\ Len(news) <= Len(flushes[i].pendingDeletes)
  /\ nextId + Len(news) - 1 <= MaxBatches
  /\ LET queue == syncQueue \o WithIds(news, nextId) IN
       /\ syncQueue' = queue
       /\ isSyncing' = syncingAfter(queue, isSyncing)
       /\ timer' = timerAfter(queue, timer)
       /\ sinceCall' = sinceCallAfter(queue, sinceCall)
  /\ flushes' = [flushes EXCEPT ![i].pull = "ok",
                                ![i].deleted = finalizingDeletes(flushes[i].pendingDeletes)]
  /\ nextId' = nextId + Len(news)
  /\ UNCHANGED <<logged, mergeVars, viewVars>>

\* the pull of flush i rejects: flushDeletes throws at its await
PullRejects(i) ==
  /\ i \in 1..Len(flushes)
  /\ flushes[i].pull = "pending"
  /\ flushes' = [flushes EXCEPT ![i].pull = "fail"]
  /\ UNCHANGED <<syncQueue, isSyncing, timer, sinceCall, nextId, logged, mergeVars, viewVars>>

Other(dest) == IF dest = "local" THEN "remote" ELSE "local"

\* a sync of flush i resolves; Promise.all resolves when both have
SyncResolves(i, dest) ==
  /\ i \in 1..Len(flushes)
  /\ flushes[i][dest] = "pending"
  /\ LET resolved == flushes[i].promise = "pending" /\ flushes[i][Other(dest)] \in {"none", "ok"} IN
       /\ flushes' = [flushes EXCEPT ![i][dest] = "ok",
                                     ![i].promise = IF resolved THEN "resolved" ELSE @]
       /\ isSyncing' = IF resolved THEN setIsSyncing(FALSE) ELSE isSyncing
  /\ UNCHANGED <<syncQueue, timer, sinceCall, nextId, logged, mergeVars, viewVars>>

\* a sync of flush i rejects; Promise.all rejects with the first rejection
SyncRejects(i, dest) ==
  /\ i \in 1..Len(flushes)
  /\ flushes[i][dest] = "pending"
  /\ LET rejected == flushes[i].promise = "pending" IN
       /\ flushes' = [flushes EXCEPT ![i][dest] = "fail",
                                     ![i].promise = IF rejected THEN "rejected" ELSE @]
       /\ logged' = IF rejected THEN logged + 1 ELSE logged
       /\ syncQueue' = IF rejected THEN queueAfterCatch(syncQueue, flushes[i]) ELSE syncQueue
  /\ UNCHANGED <<isSyncing, timer, sinceCall, nextId, mergeVars, viewVars>>

Dests == {"local", "remote"}

Next ==
  \/ \E action \in Actions : Dispatch(action)
  \/ Tick
  \/ flushQueueDebounced
  \/ \E i \in 1..MaxBatches, news \in SeqsUpTo(DeleteBatches, MaxBatches) : PullResolves(i, news)
  \/ \E i \in 1..MaxBatches : PullRejects(i)
  \/ \E i \in 1..MaxBatches, dest \in Dests : SyncResolves(i, dest)
  \/ \E i \in 1..MaxBatches, dest \in Dests : SyncRejects(i, dest)

Spec == Init /\ [][Next]_vars

\* the middleware with the scheduling of the event loop: time keeps passing
\* while a timer is pending, and the callback of an expired timer is run; the
\* mutating actions are those whose batch has both flags alike
LiveActions ==
  {action \in Actions : action.type = "updateThoughts" => action.batch.local = action.batch.remote}

\* Next for the actions in LiveActions
NextLive ==
  \/ \E action \in LiveActions : Dispatch(action)
  \/ Tick
  \/ flushQueueDebounced
  \/ \E i \in 1..MaxBatches, news \in SeqsUpTo(DeleteBatches, MaxBatches) : PullResolves(i, news)
  \/ \E i \in 1..MaxBatches : PullRejects(i)
  \/ \E i \in 1..MaxBatches, dest \in Dests : SyncResolves(i, dest)
  \/ \E i \in 1..MaxBatches, dest \in Dests : SyncRejects(i, dest)

SpecLive ==
  Init /\ [][NextLive]_vars /\ WF_vars(Tick) /\ WF_vars(flushQueueDebounced)

----------------------------------------------------------------------------
(* Properties of the middleware, checked under Spec *)

Ids(batches) == {batches[k].id : k \in 1..Len(batches)}

FlushIndexes == 1..Len(flushes)

\* the pull or a sync of the flush has not settled
InFlight(f) == f.pull = "pending" \/ f.local = "pending" \/ f.remote = "pending"

SyncDispatched(f) == f.local # "none" \/ f.remote # "none"

FlushStarts == Len(flushes') = Len(flushes) + 1

\* C1: in every flush, the pull of the pending contexts has completed and
\* every finalizing delete has been dispatched by the time a merged batch is
\* dispatched to sync.
C1_DeletesResolvedBeforeSync ==
  \A i \in FlushIndexes :
    SyncDispatched(flushes[i]) =>
      /\ flushes[i].pull \in {"none", "ok"}
      /\ Len(flushes[i].deleted) = Len(flushes[i].pendingDeletes)

\* C2: every pending delete in the queue when a flush starts is covered by a
\* pull of unbounded depth, its finalizing existingThoughtDelete is dispatched
\* only once that pull has resolved, and a flush whose queue holds no pending
\* delete dispatches neither a pull nor a finalizing delete.
C2_PullBeforeFinalizingDelete ==
  \A i \in FlushIndexes :
    LET f == flushes[i]
        none == \A j \in 1..Len(f.snap) : f.snap[j].pendingDeletes = <<>>
    IN /\ \A j \in 1..Len(f.snap) : \A k \in 1..Len(f.snap[j].pendingDeletes) :
            LET d == f.snap[j].pendingDeletes[k] IN
              /\ f.pull # "none"
              /\ d.context \in f.pending
              /\ f.maxDepth = "Infinity"
              /\ f.pull = "ok" =>
                   \E m \in 1..Len(f.deleted) :
                     /\ f.deleted[m].type = "existingThoughtDelete"
                     /\ f.deleted[m].context = d.context
                     /\ f.deleted[m].thoughtRanked = d.child
       /\ f.deleted # <<>> => f.pull = "ok"
       /\ none => f.pull = "none" /\ f.deleted = <<>>

C2_Witness ==
  \E i \in FlushIndexes :
    /\ flushes[i].pull = "ok"
    /\ {"a", "b"} \subseteq flushes[i].pending
    /\ \E m \in 1..Len(flushes[i].deleted) : flushes[i].deleted[m].thoughtRanked = "c"

\* C5: a mutating action that leaves queued updates sets isSyncing to true,
\* and isSyncing is false right after the flush promise settles, whether it
\* resolved or rejected.
C5_SyncingResetWhenSettled ==
  [][ /\ Len(syncQueue') > Len(syncQueue) => isSyncing' = TRUE
      /\ \A i \in FlushIndexes :
           (flushes[i].promise = "pending" /\ flushes'[i].promise # "pending")
             => isSyncing' = FALSE ]_vars

\* all the places a batch object is held: 0 is the queue, i > 0 is flush i
Places(id) ==
  {<<0, k>> : k \in {k \in 1..Len(syncQueue) : syncQueue[k].id = id}}
    \cup UNION { {<<i, k>> : k \in {k \in 1..Len(flushes[i].snap) : flushes[i].snap[k].id = id}}
                 : i \in FlushIndexes }

\* C6: a flush reads the whole queue as it is when the debounced callback
\* runs and the queue is empty at the end of that turn; every batch ever
\* queued is either still in the queue or was read by exactly one flush.
C6_EachBatchFlushedOnce ==
  /\ [](\A id \in 1..(nextId - 1) : Cardinality(Places(id)) = 1)
  /\ [][FlushStarts =>
          /\ flushes'[Len(flushes')].snap = syncQueue
          /\ syncQueue' = <<>>]_vars

C6_Witness ==
  /\ \E i \in FlushIndexes : Len(flushes[i].snap) > 0
  /\ Len(syncQueue) > 0

\* C7 as stated: at most one flush has unsettled pull or sync work.
C7_OneFlushInFlight ==
  Cardinality({i \in FlushIndexes : InFlight(flushes[i])}) <= 1

\* C7 amended: flushes may be in flight together, but flushes in flight at
\* the same time never hold the same queue entry.
C7_InFlightFlushesDisjoint ==
  \A i \in FlushIndexes : \A j \in FlushIndexes :
    (i # j /\ InFlight(flushes[i]) /\ InFlight(flushes[j]))
      => Ids(flushes[i].snap) \cap Ids(flushes[j].snap) = {}

C7_Witness ==
  \E i \in FlushIndexes : \E j \in FlushIndexes :
    /\ i < j
    /\ flushes[i].local = "pending"
    /\ flushes[j].local = "pending"

FlushedBefore == UNION {Ids(flushes[i].snap) : i \in FlushIndexes}

\* C8: a flush starts only when the debounce window has passed since the last
\* triggering action, it covers every batch queued since the previous flush,
\* and it leaves no timer behind, so one burst gives one flush.
C8_OneFlushPerBurst ==
  [][FlushStarts =>
       /\ sinceCall >= debounceDelay
       /\ Ids(flushes'[Len(flushes')].snap) = (1..(nextId - 1)) \ FlushedBefore
       /\ timer' = -1]_vars

C8_Witness ==
  \E i \in FlushIndexes : Len(flushes[i].snap) >= 2

Rejected == {i \in FlushIndexes : flushes[i].promise = "rejected"}

----------------------------------------------------------------------------
(* Properties of the merge, checked under SpecMerge *)

Merged == mres[1]

\* the queue entries flagged for a destination
Group(dest) == {i \in 1..Len(mq) : mq[i][dest] = "true"}

Last(S) == CHOOSE m \in S : \A n \in S : n <= m

IndexFields == {"thoughtIndexUpdates", "contextIndexUpdates", "recentlyEdited"}

\* C3: for thoughtIndexUpdates, contextIndexUpdates and recentlyEdited the
\* merged batch has the union of the keys of the merged entries, and each key
\* has the value of the last entry in queue order that has the key.
C3_LastWriteWins ==
  Len(mres) = 1 =>
    \A dest \in Dests : Group(dest) # {} =>
      \A field \in IndexFields :
        /\ DOMAIN Merged[dest][field] = UNION {DOMAIN mq[i][field] : i \in Group(dest)}
        /\ \A k \in DOMAIN Merged[dest][field] :
             Merged[dest][field][k] =
               mq[Last({i \in Group(dest) : k \in DOMAIN mq[i][field]})][field][k]

C3_Witness ==
  /\ Len(mres) = 1
  /\ Len(mq) = 2
  /\ mq[1].thoughtIndexUpdates = [k \in {"x", "y"} |-> "v1"]
  /\ mq[2].thoughtIndexUpdates = [k \in {"x"} |-> "v2"]
  /\ Merged.local.thoughtIndexUpdates = [k \in {"x", "y"} |-> IF k = "x" THEN "v2" ELSE "v1"]

\* C4 as stated: a destination flag that is true in any merged entry is true
\* in the merged batch.
C4_StickyTrue ==
  Len(mres) = 1 =>
    \A dest \in Dests : \A flag \in Dests :
      (\E i \in Group(dest) : mq[i][flag] = "true") => Merged[dest][flag] = "true"

\* C4 amended: the flags of the merged batch are those of the last merged
\* entry, true unless that entry has the flag explicitly false.
C4_LastFlagWins ==
  Len(mres) = 1 =>
    \A dest \in Dests : Group(dest) # {} =>
      \A flag \in Dests :
        Merged[dest][flag] = IF mq[Last(Group(dest))][flag] # "false" THEN "true" ELSE "false"

C4_Witness ==
  /\ Len(mres) = 1
  /\ \E i \in Group("local") :
       /\ mq[i].remote = "true"
       /\ i < Last(Group("local"))
  /\ Merged.local.remote = "false"

Scenario ==
  << Batch([k \in {"x"} |-> "v1"], NoUpdates, NoUpdates, NoUpdates, <<>>, "true", "undefined"),
     Batch([k \in {"x"} |-> "v2"], NoUpdates, NoUpdates, NoUpdates, <<>>, "undefined", "true") >>

\* C10: every update of the local-bound merged batch comes from an entry
\* flagged local and every update of the remote-bound one from an entry
\* flagged remote, a true flag of the other destination comes from an entry
\* of the own group, and a destination with no entry gets no batch; for
\* [{x: v1, local}, {x: v2, remote}] the local-bound batch holds x = v1.
C10_BatchesSplitByDestination ==
  Len(mres) = 1 =>
    /\ \A dest \in Dests :
         IF Group(dest) = {}
         THEN ~HasKeys(Merged[dest])
         ELSE /\ \A field \in IndexFields : \A k \in DOMAIN Merged[dest][field] :
                   \E i \in Group(dest) :
                     /\ k \in DOMAIN mq[i][field]
                     /\ mq[i][field][k] = Merged[dest][field][k]
              /\ Merged[dest][Other(dest)] = "true" =>
                   \E i \in Group(dest) : mq[i][Other(dest)] # "false"
    /\ mq = Scenario =>
         /\ Merged.local.thoughtIndexUpdates["x"] = "v1"
         /\ Merged.remote.thoughtIndexUpdates["x"] = "v2"

C10_Witness ==
  /\ Len(mres) = 1
  /\ mq = Scenario
  /\ Merged.local.thoughtIndexUpdates["x"] = "v1"

----------------------------------------------------------------------------
(* SpecTree: linearizeTree on stores drawn from bounded sets.               *)
(* A thought is its id; the store gives its parent, its value, and whether  *)
(* its record is loaded. Rank order is id order. The style and table fields *)
(* of TreeThought are left out.                                             *)

\* number of thoughts in the store
MaxThoughts == 4

\* longest path that state.expanded holds
MaxPathLen == 3

\* HOME_TOKEN, the id of the root thought
ROOT == 0

\* the null of getThoughtById
Null == -1

HOME_PATH == <<ROOT>>

ThoughtIds == 1..MaxThoughts

\* util/head: the last id of a path
head(path) == path[Len(path)]

isRoot(path) == path = HOME_PATH

\* util/appendToPath: the root is not kept in front of a path
appendToPathMemo(path, id) == IF isRoot(path) THEN <<id>> ELSE Append(path, id)

\* state.expanded[hashPath(path)]
expanded(st, path) == head(path) \in st.expanded /\ Len(path) <= MaxPathLen

\* state.expandHoverDownPaths[hashPath(path)]
expandHoverDownPaths(st, path) == head(path) \in st.hover /\ Len(path) <= MaxPathLen

getThoughtById(st, id) == IF id \in st.missing THEN Null ELSE id

IdSeq == [i \in 1..MaxThoughts |-> i]

\* the loaded children of a thought, in rank order
getChildrenRanked(st, id) ==
  SelectSeq(IdSeq, LAMBDA c : st.parentOf[c] = id /\ c \notin st.missing)

\* the loaded thoughts that have the value, one per context of the Lexeme
getContextsSortedAndRanked(st, value) ==
  SelectSeq(IdSeq, LAMBDA c : st.value[c] = value /\ c \notin st.missing)

isContextViewActive(st, path) == head(path) \in st.contextViews

RECURSIVE thoughtToPath(_, _)
\* the path of a thought in normal view
thoughtToPath(st, id) ==
  IF id = ROOT THEN HOME_PATH
  ELSE appendToPathMemo(thoughtToPath(st, st.parentOf[id]), id)

simplifyPath(st, path) == thoughtToPath(st, head(path))

\* the bindings parseLet finds at a path
parseLet(st, path) == st.lets[head(path)]

\* an env that is undefined
NoEnv == [defined |-> FALSE, map |-> NoUpdates]

\* `${(contextChain || []).map(head).join('')}|${id}`
crossContextualKey(contextChain, id) ==
  [chain |-> [i \in 1..Len(contextChain) |-> head(contextChain[i])], id |-> id]

\* a traversal that descends into every path
isCollapsed_Never(st, path) == FALSE

\* the test that ends the traversal at a path
isCollapsed(st, path) ==
  ~isRoot(path) /\ ~expanded(st, path) /\ ~expandHoverDownPaths(st, path)

\* a context view that keeps the children next to the contexts
childrenOf_Both(st, thoughtId, contextId, contextViewActive) ==
  IF contextViewActive
  THEN getContextsSortedAndRanked(st, st.value[thoughtId]) \o getChildrenRanked(st, thoughtId)
  ELSE getChildrenRanked(st, IF contextId # Null THEN contextId ELSE thoughtId)

\* the children of a path: its contexts when the context view is active
childrenOf(st, thoughtId, contextId, contextViewActive) ==
  IF contextViewActive
  THEN getContextsSortedAndRanked(st, st.value[thoughtId])
  ELSE getChildrenRanked(st, IF contextId # Null THEN contextId ELSE thoughtId)

\* childrenFilterPredicate: the stores drawn hold no hidden thoughts
childrenFilterPredicate(st, simplePath, child) == TRUE

\* envNew of a child
envNewOf(env, envParsed) ==
  IF env.defined /\ DOMAIN env.map # {} /\ DOMAIN envParsed # {}
  THEN [defined |-> TRUE, map |-> spread(env.map, envParsed)]
  ELSE NoEnv

\* virtualIndexNew of the i-th child (i counts from 0)
virtualIndexNewOf(indexDescendant, accum, depth, i) ==
  LET lastVirtualIndex == IF Len(accum) > 0 THEN accum[Len(accum)].indexDescendant ELSE 0
  IN indexDescendant + lastVirtualIndex + (IF depth = 0 /\ i = 0 THEN 0 ELSE 1)

RECURSIVE linearizeTree(_, _)
RECURSIVE reduceChildren(_, _, _, _, _)

\* filteredChildren.reduce(...) from child i on (i counts from 1), with the
\* closure variable belowCursor
reduceChildren(st, c, i, accum, belowCursor) ==
  IF i > Len(c.filteredChildren) THEN accum
  ELSE
    LET filteredChild == c.filteredChildren[i]
        child == IF c.contextViewActive
                 THEN getThoughtById(st, st.parentOf[filteredChild])
                 ELSE filteredChild
    IN IF child = Null THEN reduceChildren(st, c, i + 1, <<>>, belowCursor)
       ELSE
         LET childPath == appendToPathMemo(c.path, child)
             virtualIndexNew == virtualIndexNewOf(c.indexDescendant, accum, c.depth, i - 1)
             envNew == envNewOf(c.env, parseLet(st, c.path))
             belowChild == belowCursor \/ childPath = st.cursor
             node == [ belowCursor |-> belowChild,
                       depth |-> c.depth,
                       env |-> envNew,
                       indexChild |-> i - 1,
                       indexDescendant |-> virtualIndexNew,
                       key |-> crossContextualKey(c.contextChainNew, child),
                       parentKey |-> crossContextualKey(c.contextChainNew, head(c.simplePath)),
                       path |-> childPath,
                       showContexts |-> c.contextViewActive,
                       thought |-> child ]
             descendants ==
               linearizeTree(st, [ basePath |-> childPath,
                                   belowCursor |-> belowChild,
                                   contextId |-> IF c.contextViewActive THEN filteredChild ELSE Null,
                                   contextChain |-> c.contextChainNew,
                                   depth |-> c.depth + 1,
                                   env |-> envNew,
                                   indexDescendant |-> virtualIndexNew ])
             belowNext ==
               belowChild \/ (Len(descendants) > 0 /\ descendants[Len(descendants)].belowCursor)
         IN reduceChildren(st, c, i + 1, accum \o <<node>> \o descendants, belowNext)

linearizeTree(st, args) ==
  LET path == args.basePath IN
  IF isCollapsed(st, path) THEN <<>>
  ELSE
    LET thoughtId == head(path)
        simplePath == simplifyPath(st, path)
        contextViewActive == isContextViewActive(st, path)
        contextChainNew == IF contextViewActive
                           THEN Append(args.contextChain, simplePath)
                           ELSE args.contextChain
        children == childrenOf(st, thoughtId, args.contextId, contextViewActive)
        filteredChildren ==
          SelectSeq(children, LAMBDA child : childrenFilterPredicate(st, simplePath, child))
    IN IF contextViewActive /\ Len(filteredChildren) = 1 THEN <<>>
       ELSE reduceChildren(st, [ path |-> path,
                                 simplePath |-> simplePath,
                                 contextViewActive |-> contextViewActive,
                                 contextChainNew |-> contextChainNew,
                                 filteredChildren |-> filteredChildren,
                                 depth |-> args.depth,
                                 env |-> args.env,
                                 indexDescendant |-> args.indexDescendant ],
                           1, <<>>, args.belowCursor)

\* the default arguments of linearizeTree, as useSelector(linearizeTree) calls it
defaultArgs ==
  [ basePath |-> HOME_PATH, belowCursor |-> FALSE, contextId |-> Null, contextChain |-> <<>>,
    depth |-> 0, env |-> NoEnv, indexDescendant |-> 0 ]

(* the stores drawn *)

\* every thought has a parent of lower rank: the parent functions are the trees
Shapes == {f \in [ThoughtIds -> 0..(MaxThoughts - 1)] : \A i \in ThoughtIds : f[i] < i}

NoLets == [i \in 0..MaxThoughts |-> NoUpdates]

\* the thoughts in m share the value 0, every other thought has a value of its own
ValuesOf(m) == [i \in ThoughtIds |-> IF i \in m THEN 0 ELSE i]

Store(shape, m, e, h, cv, miss, cur, lets) ==
  [ parentOf |-> shape, value |-> ValuesOf(m), expanded |-> e, hover |-> h,
    contextViews |-> cv, missing |-> miss, cursor |-> cur, lets |-> lets ]

\* siblings have different values
DistinctSiblings(shape, m) ==
  \A i \in m : \A j \in m : (i # j) => shape[i] # shape[j]

PlainStore(shape, e) == Store(shape, {}, e, {}, {}, {}, <<>>, NoLets)

\* the paths the cursor can be on
CursorsOf(shape) ==
  {<<>>} \cup {thoughtToPath([parentOf |-> shape], i) : i \in ThoughtIds}

\* normal view: any expansion, the cursor on any thought or nowhere
CursorStores(st) ==
  \E shape \in Shapes, e \in SUBSET ThoughtIds :
    \E cur \in CursorsOf(shape) :
      st = [PlainStore(shape, e) EXCEPT !.cursor = cur]

\* normal view: any expansion, bindings at one thought or at the root
LetStores(st) ==
  \E shape \in Shapes, e \in SUBSET ThoughtIds, l \in 0..MaxThoughts :
    st = [PlainStore(shape, e) EXCEPT !.lets = [NoLets EXCEPT ![l] = [k \in {"x"} |-> "v1"]]]

\* normal view: any expansion, one path expanded by hover
HoverStores(st) ==
  \E shape \in Shapes, e \in SUBSET ThoughtIds, h \in ThoughtIds :
    st = [PlainStore(shape, e) EXCEPT !.hover = {h}]

\* the path of the first context shown under the context view on c
FirstContextPath(shape, m, c) ==
  LET st == [parentOf |-> shape]
      first == CHOOSE i \in m : \A j \in m : i <= j
  IN Append(thoughtToPath(st, c), shape[first])

ContextCursors(shape, m, c) ==
  {<<>>} \cup (IF c \in m THEN {FirstContextPath(shape, m, c)} ELSE {})

\* context view on one thought, everything expanded, at most one record not
\* loaded, the cursor nowhere or on the first context
ContextStores(st) ==
  \E shape \in Shapes, m \in SUBSET ThoughtIds, c \in ThoughtIds :
    /\ DistinctSiblings(shape, m)
    /\ \E miss \in {{}} \cup {{k} : k \in ThoughtIds \ {c}} :
         \E cur \in ContextCursors(shape, m, c) :
           st = Store(shape, m, 0..MaxThoughts, {}, {c}, miss, cur, NoLets)

TreeStores(st) == CursorStores(st) \/ LetStores(st) \/ HoverStores(st) \/ ContextStores(st)

InitTree ==
  /\ TreeStores(store)
  /\ treeThoughts = <<>>
  /\ InitMiddleware /\ IdleMerge /\ IdleChain /\ IdleLayout /\ IdleUndo /\ IdleSize

\* useSelector(linearizeTree)
Linearize ==
  /\ treeThoughts = <<>>
  /\ treeThoughts' = <<linearizeTree(store, defaultArgs)>>
  /\ UNCHANGED <<store, middlewareVars, mergeVars, chainVars, layoutVars, undoVars, sizeVars>>

NextTree == Linearize

SpecTree == InitTree /\ [][NextTree]_vars

\* the TreeThought list
Thoughts == treeThoughts[1]

Linearized == Len(treeThoughts) = 1

----------------------------------------------------------------------------
(* SpecChain: the selector chain on context chains and paths drawn from      *)
(* bounded sets. A path is a sequence of children [value, rank].            *)

\* longest path, longest segment and longest context chain drawn
MaxChain == 2

\* util/normalizeThought: folds the case of a value
normalizeThought(value) == IF value = "A" THEN "a" ELSE value

Child(value, rank) == [value |-> value, rank |-> rank]

\* the children paths are drawn from
PathChildren == {Child(v, 0) : v \in {"a", "b", "A"}}

\* the children context chain segments are drawn from
SegmentChildren == {Child(v, 0) : v \in {"a", "b"}}

ChainPaths == SeqsUpTo(PathChildren, MaxChain)

Segments == SeqsUpTo(SegmentChildren, MaxChain) \ {<<>>}

\* a context chain that is undefined
NoChain == [defined |-> FALSE, segments |-> <<>>]

ContextChains ==
  {NoChain} \cup {[defined |-> TRUE, segments |-> c] : c \in SeqsUpTo(Segments, MaxChain)}

\* the contexts of the values in the store: none, or the value a in context b
Lexemes == { <<>>, <<[context |-> <<"b">>, rank |-> 1]>> }

\* the contexts of a value
contextsOf(state, value) == IF normalizeThought(value) = "a" THEN state ELSE <<>>

\* Array.prototype.findIndex, counting from 0, -1 when nothing matches
findIndex(path, value) ==
  LET matches == {k \in 1..Len(path) : normalizeThought(path[k].value) = normalizeThought(value)}
  IN IF matches = {} THEN -1 ELSE (CHOOSE k \in matches : \A j \in matches : k <= j) - 1

\* Array.prototype.slice(start): a negative start counts from the end
slice(arr, start) ==
  LET from == IF start < 0 THEN Max(Len(arr) + start, 0) ELSE Min(start, Len(arr))
  IN SubSeq(arr, from + 1, Len(arr))

\* util/splice(arr, start, deleteCount): the array without deleteCount elements from start
splice(arr, start, deleteCount) ==
  LET from == Min(start, Len(arr))
  IN SubSeq(arr, 1, from) \o slice(arr, from + deleteCount)

\* Array.prototype.find on the contexts: the first one whose head has the value
findContext(contexts, value) ==
  SelectSeq(contexts, LAMBDA child : normalizeThought(head(child.context)) = normalizeThought(value))

RECURSIVE flatSegments(_)
\* Array.prototype.flat on a list of paths
flatSegments(all) ==
  IF Len(all) = 0 THEN <<>> ELSE all[1] \o flatSegments(Tail(all))

Returned(path) == [threw |-> FALSE, path |-> path]

\* a TypeError from reading a property of undefined
Threw == [threw |-> TRUE, path |-> <<>>]

\* the head thought of the last segment of the context chain
pivotOf(segments) == head(segments[Len(segments)])

\* append: the path from one place before the pivot match
appendOf(segments, path) == slice(path, findIndex(path, pivotOf(segments).value) - 1)

\* the append tail, its first thought with the rank of the context that has its value
tailOf(state, segments, path) ==
  LET append == appendOf(segments, path)
      contexts == contextsOf(state, pivotOf(segments).value)
      found == IF Len(contexts) > 0 THEN findContext(contexts, append[1].value) ELSE <<>>
  IN IF Len(found) > 0
     THEN <<Child(append[1].value, found[1].rank)>> \o slice(append, 1)
     ELSE append

\* chain that drops the first thought of every segment after the first
chainMerge_DropFirst(state, segments, path) ==
  IF Len(contextsOf(state, pivotOf(segments).value)) > 0 /\ Len(appendOf(segments, path)) = 0
  THEN Threw
  ELSE
    LET all == Append(segments, tailOf(state, segments, path))
    IN Returned(flatSegments([k \in 1..Len(all) |->
                                IF k > 1 THEN splice(all[k], 0, 1) ELSE all[k]]))

\* chain past its first line, for a context chain with a segment
chainMerge(state, segments, path) ==
  IF Len(contextsOf(state, pivotOf(segments).value)) > 0 /\ Len(appendOf(segments, path)) = 0
  THEN Threw
  ELSE
    LET all == Append(segments, tailOf(state, segments, path))
    IN Returned(flatSegments([k \in 1..Len(all) |->
                                IF k > 1 THEN splice(all[k], 1, 1) ELSE all[k]]))

\* chain that only returns early for an undefined context chain
chain_NoGuard(state, contextChain, path) ==
  IF ~contextChain.defined THEN Returned(path)
  ELSE IF Len(contextChain.segments) = 0 THEN Threw
  ELSE chainMerge(state, contextChain.segments, path)

chain(state, contextChain, path) ==
  IF ~contextChain.defined \/ Len(contextChain.segments) = 0 THEN Returned(path)
  ELSE chainMerge(state, contextChain.segments, path)

InitChain ==
  /\ chainIn \in [state : Lexemes, contextChain : ContextChains, path : ChainPaths]
  /\ chainOut = <<>>
  /\ InitMiddleware /\ IdleMerge /\ IdleTree /\ IdleLayout /\ IdleUndo /\ IdleSize

\* one call of chain, with its arguments
Call(contextChain, path) ==
  [contextChain |-> contextChain, path |-> path, out |-> chain(chainIn.state, contextChain, path)]

\* chain(state, contextChain, path)
Chain ==
  /\ chainOut = <<>>
  /\ chainOut' = <<Call(chainIn.contextChain, chainIn.path)>>
  /\ UNCHANGED <<chainIn, middlewareVars, mergeVars, treeVars, layoutVars, undoVars, sizeVars>>

\* chain applied to its own result, with no or an empty context chain
ChainAgain ==
  /\ Len(chainOut) = 1
  /\ ~chainOut[1].out.threw
  /\ \E c \in {NoChain, [defined |-> TRUE, segments |-> <<>>]} :
       chainOut' = Append(chainOut, Call(c, chainOut[1].out.path))
  /\ UNCHANGED <<chainIn, middlewareVars, mergeVars, treeVars, layoutVars, undoVars, sizeVars>>

NextChain == Chain \/ ChainAgain

SpecChain == InitChain /\ [][NextChain]_vars

----------------------------------------------------------------------------
(* SpecLayout: the positioning pass (treeThoughtsPositioned) on linearized   *)
(* sequences, size caches and font sizes drawn from bounded sets. The key   *)
(* of a node is its place in the sequence; 0 is the key of the root.        *)

\* longest sequence of nodes drawn
MaxNodes == 3

FontSizes == {16, 20}

\* measured heights: about a single line, and two lines
Heights == {32, 60}

\* measured widths: below and above ten times the font size
Widths == {50, 300}

\* a key that is not in the size cache
NoSize == [measured |-> FALSE, height |-> 0, width |-> 0]

\* the cached sizes drawn: not every height is drawn with every width
Sizes ==
  {NoSize} \cup {sz \in [measured : {TRUE}, height : Heights, width : Widths] :
                   sz.height = 32 \/ sz.width = 300}

\* the depths of a linearized sequence: the first node is at depth 0 and a
\* node is at most one level below the node before it
DepthSeqs ==
  { d \in UNION {[1..n -> 0..(MaxNodes - 1)] : n \in 1..MaxNodes} :
      /\ d[1] = 0
      /\ \A k \in 1..(Len(d) - 1) : d[k + 1] <= d[k] + 1 }

\* the key of the parent of node k: the last node before k one level up
parentKeyOf(d, k) ==
  LET up == {j \in 1..(k - 1) : d[j] = d[k] - 1}
  IN IF up = {} THEN 0 ELSE CHOOSE j \in up : \A i \in up : i <= j

\* the keys of the children of node k, in order
childrenKeysOf(d, k) ==
  SelectSeq([j \in 1..Len(d) |-> j], LAMBDA j : parentKeyOf(d, j) = k)

\* the TreeThought at place k of a sequence with the given depths, where the
\* thoughts in tables have the attribute =view/Table
TreeThought(d, tables, k) ==
  LET parentKey == parentKeyOf(d, k)
      grandparentKey == IF parentKey = 0 THEN 0 ELSE parentKeyOf(d, parentKey)
  IN [ key |-> k,
       depth |-> d[k],
       parentKey |-> parentKey,
       grandparentKey |-> grandparentKey,
       isTableCol1 |-> parentKey \in tables,
       isTableCol2 |-> parentKey # 0 /\ grandparentKey \in tables,
       isTable |-> k \in tables,
       visibleChildrenKeys |-> IF k \in tables THEN childrenKeysOf(d, k) ELSE <<>> ]

TreeThoughts(d, tables) == [k \in 1..Len(d) |-> TreeThought(d, tables, k)]

\* the height of the first cached size within half of its height of the estimate
singleLineHeightMeasured(sizes, estimatedHeight) ==
  LET abs(x) == IF x < 0 THEN -x ELSE x
      near == {k \in 1..Len(sizes) :
                 sizes[k].measured /\ 2 * abs(sizes[k].height - estimatedHeight) < sizes[k].height}
  IN IF near = {} THEN 0 ELSE sizes[CHOOSE k \in near : \A j \in near : k <= j].height

\* singleLineHeight: the measured height of a single line, else the one
\* measured in an earlier render, else the estimate
singleLineHeight(in) ==
  LET estimatedHeight == in.fontSize * 2 - 2
      measured == singleLineHeightMeasured(in.sizes, estimatedHeight)
      prev == IF measured # 0 THEN measured ELSE in.singleLineHeightPrev
  IN IF prev # 0 THEN prev ELSE estimatedHeight

\* a cliff that also counts a rise in depth
cliffOf_NoMin(nodes, i) ==
  IF i < Len(nodes) THEN nodes[i + 1].depth - nodes[i].depth ELSE -nodes[i].depth - 1

\* the cliff of node i
cliffOf(nodes, i) ==
  IF i < Len(nodes) THEN Min(0, nodes[i + 1].depth - nodes[i].depth) ELSE -nodes[i].depth - 1

\* the width of column 1 of a table: the widest cached child, 0 when none is cached
tableCol1WidthOf(in, node) ==
  LET keys == node.visibleChildrenKeys
      widest[k \in 0..Len(keys)] ==
        IF k = 0 THEN 0 ELSE Max(widest[k - 1], in.sizes[keys[k]].width)
  IN widest[Len(keys)]

\* yaccum after a node that adds its height also in column 1 of a table
yaccumAfter_All(yaccum, node, height) == yaccum + height

\* yaccum after a node
yaccumAfter(yaccum, node, height) == IF ~node.isTableCol1 THEN yaccum + height ELSE yaccum

RECURSIVE positionFrom(_, _, _, _)
\* treeThoughts.map(...) from node i on, with the closure variables yaccum and
\* tableCol1Widths (a width of 0 stands for a key that is not in the map)
positionFrom(in, i, yaccum, tableCol1Widths) ==
  IF i > Len(in.treeThoughts) THEN <<>>
  ELSE
    LET node == in.treeThoughts[i]
        cliff == cliffOf(in.treeThoughts, i)
        singleLineHeightWithCliff ==
          singleLineHeight(in) + (IF cliff < 0 THEN in.fontSize \div 4 ELSE 0)
        height == IF in.sizes[node.key].measured THEN in.sizes[node.key].height
                  ELSE singleLineHeightWithCliff
        tableCol1Width == IF node.isTable THEN tableCol1WidthOf(in, node) ELSE 0
        widths == IF tableCol1Width > 0
                  THEN [tableCol1Widths EXCEPT ![node.key] = tableCol1Width]
                  ELSE tableCol1Widths
        maxTableColumnWidth == in.fontSize * 10
        parentWidth == IF widths[node.grandparentKey] # 0
                       THEN Min(widths[node.grandparentKey], maxTableColumnWidth)
                       ELSE maxTableColumnWidth
        x == (in.fontSize * (2 * node.depth
                + (IF node.isTableCol1 THEN -3 ELSE IF node.isTableCol2 THEN 1 ELSE 0))) \div 2
             + (IF node.isTableCol2 THEN parentWidth ELSE 0)
        positionedNode ==
          [ key |-> node.key, depth |-> node.depth, isTableCol1 |-> node.isTableCol1,
            isTableCol2 |-> node.isTableCol2, cliff |-> cliff, height |-> height,
            parentWidth |-> parentWidth,
            singleLineHeightWithCliff |-> singleLineHeightWithCliff,
            width |-> widths[node.parentKey], x |-> x, y |-> yaccum ]
    IN <<positionedNode>> \o positionFrom(in, i + 1, yaccumAfter(yaccum, node, height), widths)

treeThoughtsPositioned(in) ==
  positionFrom(in, 1, 0, [k \in 0..Len(in.treeThoughts) |-> 0])

LayoutInputs(in) ==
  \E d \in DepthSeqs, f \in FontSizes, prev \in {0} \cup {32} :
    \E tables \in SUBSET (1..Len(d)), sizes \in [1..Len(d) -> Sizes] :
      in = [ treeThoughts |-> TreeThoughts(d, tables), sizes |-> sizes,
             fontSize |-> f, singleLineHeightPrev |-> prev ]

InitLayout ==
  /\ LayoutInputs(layoutIn)
  /\ positioned = <<>>
  /\ InitMiddleware /\ IdleMerge /\ IdleTree /\ IdleChain /\ IdleUndo /\ IdleSize

\* the useMemo that computes treeThoughtsPositioned
Position ==
  /\ positioned = <<>>
  /\ positioned' = <<treeThoughtsPositioned(layoutIn)>>
  /\ UNCHANGED <<layoutIn, middlewareVars, mergeVars, treeVars, chainVars, undoVars, sizeVars>>

NextLayout == Position

SpecLayout == InitLayout /\ [][NextLayout]_vars

\* the TreeThoughtPositioned list
Positioned == positioned[1]

IsPositioned == Len(positioned) = 1

----------------------------------------------------------------------------
(* SpecUndo: undoAction and redoAction over edits and cursor moves, as the   *)
(* tests 'redo thought change' and 'redo contiguous changes' use them. The  *)
(* tree is the list of the values of the thoughts in the root; an undo      *)
(* patch holds an edit (thought, old and new value) or a cursor move.       *)

\* number of actions dispatched after importText
MaxActions == 4

\* the values a thought is edited to
EditValues == {"A", "Atlantic", "B"}

\* importText of '- A - B'
Imported == <<"A", "B">>

\* the patch of an edit of thought i to the value, or of a cursor move
Patch(h, type, i, value, cursor) ==
  [ type |-> type, idx |-> i, from |-> IF i = 0 THEN "" ELSE h.thoughts[i], to |-> value,
    cursorFrom |-> h.cursor, cursorTo |-> cursor, before |-> h.thoughts ]

\* contiguous edits merged so that undo goes back to the value between them
mergePatch_Latest(top, patch) ==
  [patch EXCEPT !.before = top.before, !.cursorFrom = top.cursorFrom]

\* contiguous edits of a thought, or contiguous cursor moves, make one patch
mergePatch(top, patch) ==
  [top EXCEPT !.to = patch.to, !.cursorTo = patch.cursorTo]

\* the last patch takes in a new one of the same type on the same thought when
\* no other action came between them
isContiguous(h, patch) ==
  /\ Len(h.undoPatches) > 0
  /\ h.last = patch.type
  /\ h.undoPatches[Len(h.undoPatches)].type = patch.type
  /\ h.undoPatches[Len(h.undoPatches)].idx = patch.idx

\* an undoable action: its patch goes on the undo patches, the redo patches
\* are dropped
record(h, patch) ==
  [ h EXCEPT
      !.undoPatches =
        IF isContiguous(h, patch)
        THEN [h.undoPatches EXCEPT ![Len(h.undoPatches)] = mergePatch(@, patch)]
        ELSE Append(h.undoPatches, patch),
      !.redoPatches = <<>>,
      !.last = patch.type,
      !.undid = FALSE, !.redid = FALSE,
      !.count = h.count + 1 ]

editThought(h, i, value) ==
  [record(h, Patch(h, "editThought", i, value, h.cursor)) EXCEPT !.thoughts[i] = value]

setCursor(h, cursor) ==
  [record(h, Patch(h, "setCursor", 0, "", cursor)) EXCEPT !.cursor = cursor]

\* the state with the last undo patch reverted and moved to the redo patches
undoOne(h) ==
  LET patch == h.undoPatches[Len(h.undoPatches)]
  IN [ h EXCEPT
         !.thoughts = IF patch.type = "editThought"
                      THEN [h.thoughts EXCEPT ![patch.idx] = patch.from] ELSE h.thoughts,
         !.cursor = patch.cursorFrom,
         !.undoPatches = SubSeq(h.undoPatches, 1, Len(h.undoPatches) - 1),
         !.redoPatches = Append(h.redoPatches, patch) ]

\* the state with the last redo patch applied again and moved to the undo patches
redoOne(h) ==
  LET patch == h.redoPatches[Len(h.redoPatches)]
  IN [ h EXCEPT
         !.thoughts = IF patch.type = "editThought"
                      THEN [h.thoughts EXCEPT ![patch.idx] = patch.to] ELSE h.thoughts,
         !.cursor = patch.cursorTo,
         !.redoPatches = SubSeq(h.redoPatches, 1, Len(h.redoPatches) - 1),
         !.undoPatches = Append(h.undoPatches, patch) ]

IsEdit(patches) == Len(patches) > 0 /\ patches[Len(patches)].type = "editThought"

IsMove(patches) == Len(patches) > 0 /\ patches[Len(patches)].type = "setCursor"

\* undoAction: cursor moves are undone together with the edit before them
undoAction(h) ==
  LET moved == IF IsMove(h.undoPatches) THEN undoOne(h) ELSE h
      edited == IF IsEdit(moved.undoPatches) THEN undoOne(moved) ELSE moved
  IN [ edited EXCEPT
         !.last = "undoAction",
         !.undid = IsEdit(moved.undoPatches),
         !.redid = FALSE,
         !.beforeEdit = IF IsEdit(moved.undoPatches)
                        THEN moved.undoPatches[Len(moved.undoPatches)].before
                        ELSE h.beforeEdit,
         !.beforeUndo = h.thoughts,
         !.count = h.count + 1 ]

\* redoAction: an edit is redone together with the cursor moves after it
redoAction(h) ==
  LET edited == IF IsEdit(h.redoPatches) THEN redoOne(h) ELSE h
      moved == IF IsMove(edited.redoPatches) THEN redoOne(edited) ELSE edited
  IN [ moved EXCEPT
         !.last = "redoAction",
         !.redid = h.last = "undoAction" /\ h.undid,
         !.undid = FALSE,
         !.count = h.count + 1 ]

InitUndo ==
  /\ history = [ thoughts |-> Imported, cursor |-> 0, undoPatches |-> <<>>, redoPatches |-> <<>>,
                 last |-> "importText", undid |-> FALSE, redid |-> FALSE,
                 beforeEdit |-> Imported, beforeUndo |-> Imported, count |-> 0 ]
  /\ InitMiddleware /\ IdleMerge /\ IdleTree /\ IdleChain /\ IdleLayout /\ IdleSize

UndoUnchanged == UNCHANGED <<middlewareVars, mergeVars, treeVars, chainVars, layoutVars, sizeVars>>

EditThought ==
  /\ history.count < MaxActions
  /\ \E i \in 1..Len(history.thoughts), value \in EditValues :
       /\ value # history.thoughts[i]
       /\ history' = editThought(history, i, value)
  /\ UndoUnchanged

SetCursor ==
  /\ history.count < MaxActions
  /\ \E cursor \in 0..Len(history.thoughts) :
       /\ cursor # history.cursor
       /\ history' = setCursor(history, cursor)
  /\ UndoUnchanged

UndoAction ==
  /\ history.count < MaxActions
  /\ history' = undoAction(history)
  /\ UndoUnchanged

RedoAction ==
  /\ history.count < MaxActions
  /\ history' = redoAction(history)
  /\ UndoUnchanged

NextUndo == EditThought \/ SetCursor \/ UndoAction \/ RedoAction

SpecUndo == InitUndo /\ [][NextUndo]_vars

----------------------------------------------------------------------------
(* SpecSize: useSizeTracking. setSize is called with measurements and with  *)
(* null heights, time passes, removal timeouts fire, the component unmounts. *)
(* The width of a size is left out.                                         *)

\* ms to debounce removal of size entries
SIZE_REMOVAL_DEBOUNCE == 1000

\* the time that passes in one step
SizeStep == SIZE_REMOVAL_DEBOUNCE \div 2

\* no timeout is pending for a key
NoTimeout == -1

SizeKeys == {"k1", "k2"}

SizeHeights == {10, 20}

\* a key that is not in sizes
NoEntry == [measured |-> FALSE, height |-> 0, isVisible |-> FALSE]

Entry(height, isVisible) == [measured |-> TRUE, height |-> height, isVisible |-> isVisible]

\* clearTimeout(sizeRemovalTimeouts.current.get(key)); the id of a timeout
\* that fired stays in the map, where clearing it does nothing
clearTimeout(s, key) == [s EXCEPT !.timeouts[key] = NoTimeout]

\* removeSize that leaves a pending timeout running
removeSize_NoRestart(s, key) ==
  IF s.timeouts[key] # NoTimeout THEN s
  ELSE [s EXCEPT !.timeouts[key] = SIZE_REMOVAL_DEBOUNCE]

removeSize(s, key) ==
  [clearTimeout(s, key) EXCEPT !.timeouts[key] = SIZE_REMOVAL_DEBOUNCE]

\* the setSizes updater of setSize
setSizes(s, key, height, isVisible) ==
  IF s.sizes[key].measured /\ height = s.sizes[key].height /\ isVisible = s.sizes[key].isVisible
  THEN s
  ELSE [s EXCEPT !.sizes[key] = Entry(height, isVisible)]

\* setSize that does not cancel the removal timeout
setSize_NoClear(s, key, height, isVisible) ==
  IF height # Null THEN setSizes(s, key, height, isVisible)
  ELSE removeSize(s, key)

setSize(s, key, height, isVisible) ==
  IF height # Null THEN setSizes(clearTimeout(s, key), key, height, isVisible)
  ELSE removeSize(s, key)

\* the callback of the removal timeout
removalTimeout(s, key) ==
  IF s.unmounted THEN clearTimeout(s, key)
  ELSE [clearTimeout(s, key) EXCEPT !.sizes[key] = NoEntry]

\* the last step: what it was, the entry and the timeout of its key before it,
\* and the time since the last null height of the key with no measurement after
LastStep(s, op, key, height) ==
  [ op |-> op, key |-> key, height |-> height, before |-> s.sizes[key],
    timeoutBefore |-> s.timeouts[key], sinceNull |-> s.sinceNull[key] ]

InitSize ==
  /\ sizing = [ sizes |-> [k \in SizeKeys |-> NoEntry],
                timeouts |-> [k \in SizeKeys |-> NoTimeout],
                unmounted |-> FALSE,
                sinceNull |-> [k \in SizeKeys |-> NoTimeout],
                last |-> [ op |-> "mount", key |-> "k1", height |-> Null, before |-> NoEntry,
                           timeoutBefore |-> NoTimeout, sinceNull |-> NoTimeout ] ]
  /\ dispatched = <<>>
  /\ sibling = <<>>
  /\ InitMiddleware /\ IdleMerge /\ IdleTree /\ IdleChain /\ IdleLayout /\ IdleUndo

SizeUnchanged ==
  UNCHANGED <<dispatched, sibling, middlewareVars, mergeVars, treeVars, chainVars, layoutVars, undoVars>>

\* VirtualThought reports a size, or a null height when it unmounts
SetSize ==
  /\ ~sizing.unmounted
  /\ \E key \in SizeKeys, height \in SizeHeights \cup {Null}, isVisible \in BOOLEAN :
       sizing' = [ setSize(sizing, key, height, isVisible) EXCEPT
                     !.sinceNull[key] = IF height = Null THEN 0 ELSE NoTimeout,
                     !.last = LastStep(sizing, "setSize", key, height) ]
  /\ SizeUnchanged

\* time passes
Elapse ==
  /\ \E k \in SizeKeys : sizing.timeouts[k] > 0
  /\ sizing' = [ sizing EXCEPT
                   !.timeouts = [k \in SizeKeys |->
                                   IF sizing.timeouts[k] = NoTimeout THEN NoTimeout
                                   ELSE Max(sizing.timeouts[k] - SizeStep, 0)],
                   !.sinceNull = [k \in SizeKeys |->
                                    IF sizing.sinceNull[k] = NoTimeout THEN NoTimeout
                                    ELSE Min(sizing.sinceNull[k] + SizeStep,
                                             SIZE_REMOVAL_DEBOUNCE)],
                   !.last = LastStep(sizing, "elapse", "k1", Null) ]
  /\ SizeUnchanged

\* a removal timeout that is due fires
RemovalTimeout ==
  /\ \E key \in SizeKeys :
       /\ sizing.timeouts[key] = 0
       /\ sizing' = [ removalTimeout(sizing, key) EXCEPT
                        !.last = LastStep(sizing, "timeout", key, Null) ]
  /\ SizeUnchanged

\* the cleanup of the effect of useSizeTracking
Unmount ==
  /\ ~sizing.unmounted
  /\ sizing' = [sizing EXCEPT !.unmounted = TRUE, !.last = LastStep(sizing, "unmount", "k1", Null)]
  /\ SizeUnchanged

NextSize == SetSize \/ Elapse \/ RemovalTimeout \/ Unmount

SpecSize == InitSize /\ [][NextSize]_vars

----------------------------------------------------------------------------
(* SpecDispatch: the body of the middleware on any action, where the        *)
(* isSyncing actions that the middleware dispatches pass through it again.  *)

\* the most dispatches followed through the middleware for one action
MaxDispatches == 3

IsSyncingAction(value) == [type |-> "isSyncing", value |-> value]

\* the actions dispatched: those of the application and isSyncing
AnyActions == Actions \cup {IsSyncingAction(v) : v \in BOOLEAN}

\* next(action): the root reducer on syncQueue and isSyncing
reduce(m, action, id) ==
  [ m EXCEPT !.syncQueue = reduceQueue(m.syncQueue, action, id),
             !.isSyncing = IF action.type = "isSyncing" THEN action.value ELSE m.isSyncing,
             !.passed = Append(m.passed, action.type) ]

\* a test that lets isSyncing trigger the flush
triggers_Any(m, action) == hasSyncs(m.syncQueue)

\* if state has queued updates, flush the queue; do not trigger on isSyncing
triggers(m, action) == hasSyncs(m.syncQueue) /\ action.type # "isSyncing"

RECURSIVE middleware(_, _, _, _)
\* next => action => { ... }: dispatches beyond MaxDispatches are not followed
middleware(m, action, id, left) ==
  LET reduced == reduce(m, action, id)
  IN IF left > 1 /\ triggers(reduced, action)
     THEN LET synced == middleware(reduced, IsSyncingAction(TRUE), id, left - 1)
          IN [synced EXCEPT !.timer = debounceCall(synced.timer), !.sinceCall = 0]
     ELSE reduced

InitDispatch == Init

\* store.dispatch(action)
DispatchAny(action) ==
  /\ action.type = "updateThoughts" => nextId <= MaxBatches
  /\ LET m == middleware([ syncQueue |-> syncQueue, isSyncing |-> isSyncing, timer |-> timer,
                           sinceCall |-> sinceCall, passed |-> <<>> ],
                         action, nextId, MaxDispatches)
     IN /\ syncQueue' = m.syncQueue
        /\ isSyncing' = m.isSyncing
        /\ timer' = m.timer
        /\ sinceCall' = m.sinceCall
        /\ dispatched' = <<[ action |-> action.type, passed |-> m.passed,
                             timerBefore |-> timer, timerAfter |-> m.timer,
                             sinceCallBefore |-> sinceCall, sinceCallAfter |-> m.sinceCall ]>>
  /\ nextId' = IF action.type = "updateThoughts" THEN nextId + 1 ELSE nextId
  /\ UNCHANGED <<flushes, logged, mergeVars, treeVars, chainVars, layoutVars, undoVars, sizing, sibling>>

NextDispatch ==
  \/ \E action \in AnyActions : DispatchAny(action)
  \/ Tick
  \/ flushQueueDebounced

SpecDispatch == InitDispatch /\ [][NextDispatch]_vars

----------------------------------------------------------------------------
(* SpecSibling: nextSibling on the children of one context, drawn from     *)
(* bounded sets. A child is its value and its rank; ranks are unique among *)
(* the children. The attribute =hidden of a child is given per value.      *)

\* most children of the context
MaxSiblings == 3

\* the values of the children, in the order of their strings
SiblingValues == <<"=f", "a", "b">>

ValueSet == {SiblingValues[k] : k \in 1..Len(SiblingValues)}

\* the place of a value in the order of the strings
ord(value) == CHOOSE k \in 1..Len(SiblingValues) : SiblingValues[k] = value

\* what indexing past the end of an array gives
Undefined == [value |-> "undefined", rank |-> Null]

\* isFunction: the value starts with =
isFunction(value) == value = "=f"

\* the children of a set in the order given by before
sortBy(children, before(_, _)) ==
  LET place(c) == Cardinality({d \in children : before(d, c)}) + 1
  IN [k \in 1..Cardinality(children) |-> CHOOSE c \in children : place(c) = k]

\* getThoughtsRanked: the children of the context by rank
getThoughtsRanked(state) == sortBy(state.children, LAMBDA a, b : a.rank < b.rank)

\* getThoughtsSorted: the children of the context by value, equal values by rank
getThoughtsSorted(state) ==
  sortBy(state.children,
         LAMBDA a, b : ord(a.value) < ord(b.value) \/ (a.value = b.value /\ a.rank < b.rank))

equalThoughtRanked(a, value, rank) == a.value = value /\ a.rank = rank

equalThoughtSorted(a, value) == a.value = value

\* child => !isFunction(child.value) && !meta(context.concat(child.value)).hidden
notHidden(state, child) == ~isFunction(child.value) /\ child.value \notin state.hidden

\* Array.prototype.findIndex: the 0-based index of the first element that
\* satisfies the test, -1 when there is none
findIndexOf(array, test(_)) ==
  LET found == {k \in 1..Len(array) : test(array[k])}
  IN IF found = {} THEN -1 ELSE (CHOOSE k \in found : \A j \in found : k <= j) - 1

\* array[i] for a 0-based index
elementAt(array, i) == IF i >= 0 /\ i < Len(array) THEN array[i + 1] ELSE Undefined

\* nextSibling, with the state that store.getState() and meta read
nextSibling(state, value, rank) ==
  LET alphabetical == state.sortPreference = "Alphabetical"
      siblings == IF alphabetical THEN getThoughtsSorted(state) ELSE getThoughtsRanked(state)
      siblingsFiltered ==
        IF state.showHiddenThoughts THEN siblings
        ELSE SelectSeq(siblings, LAMBDA child : notHidden(state, child))
      i == findIndexOf(siblingsFiltered,
                       LAMBDA child : IF alphabetical THEN equalThoughtSorted(child, value)
                                      ELSE equalThoughtRanked(child, value, rank))
  IN elementAt(siblingsFiltered, i + 1)

SiblingRanks == 0..(MaxSiblings - 1)

\* the states and arguments drawn: children with distinct ranks
SiblingInputs(in) ==
  \E ranks \in SUBSET SiblingRanks, hidden \in SUBSET {"a", "b"},
     sortPreference \in {"None", "Alphabetical"}, showHiddenThoughts \in BOOLEAN,
     value \in ValueSet, rank \in SiblingRanks :
    \E valueOf \in [ranks -> ValueSet] :
      in = [ state |-> [ children |-> {[value |-> valueOf[r], rank |-> r] : r \in ranks},
                         hidden |-> hidden,
                         sortPreference |-> sortPreference,
                         showHiddenThoughts |-> showHiddenThoughts ],
             value |-> value, rank |-> rank, out |-> <<>> ]

InitSibling ==
  /\ SiblingInputs(sibling)
  /\ sizing = <<>> /\ dispatched = <<>>
  /\ InitMiddleware /\ IdleMerge /\ IdleTree /\ IdleChain /\ IdleLayout /\ IdleUndo

\* nextSibling(value, context, rank) is called
NextSibling ==
  /\ sibling.out = <<>>
  /\ sibling' = [sibling EXCEPT !.out = <<nextSibling(sibling.state, sibling.value, sibling.rank)>>]
  /\ UNCHANGED <<sizing, dispatched, middlewareVars, mergeVars, treeVars, chainVars,
                 layoutVars, undoVars>>

SpecSibling == InitSibling /\ [][NextSibling]_vars

----------------------------------------------------------------------------
(* Properties of linearizeTree *)

Nodes == 1..Len(Thoughts)

\* the path of the parent of a node
ParentPath(path) == IF Len(path) = 1 THEN HOME_PATH ELSE SubSeq(path, 1, Len(path) - 1)

Emitted(path) == \E k \in Nodes : Thoughts[k].path = path

\* the thoughts of the nodes emitted directly under a path, in order
DirectThoughts(path) ==
  LET direct == SelectSeq(Thoughts, LAMBDA n : ParentPath(n.path) = path)
  IN [k \in 1..Len(direct) |-> direct[k].thought]

\* C11: no emitted node has a proper ancestor, other than the root, that is
\* neither expanded nor expanded by hover.
C11_NoNodeUnderCollapsed ==
  Linearized =>
    \A k \in Nodes : \A j \in 1..(Len(Thoughts[k].path) - 1) :
      LET ancestor == SubSeq(Thoughts[k].path, 1, j)
      IN expanded(store, ancestor) \/ expandHoverDownPaths(store, ancestor)

\* an emitted thought that is collapsed and has a child, next to an emitted
\* node below the first level
C11_Witness ==
  /\ Linearized
  /\ \E k \in Nodes : Len(Thoughts[k].path) >= 2
  /\ \E k \in Nodes : \E c \in ThoughtIds :
       /\ store.parentOf[c] = Thoughts[k].thought
       /\ Thoughts[k].thought \notin (store.expanded \cup store.hover)
       /\ ~Emitted(Append(Thoughts[k].path, c))

\* C12: belowCursor is false on every node before the cursor node and true on
\* the cursor node and every node after it; it is false everywhere when the
\* cursor is not emitted.
C12_BelowCursorFromCursorOn ==
  Linearized =>
    LET at == {k \in Nodes : Thoughts[k].path = store.cursor}
    IN \A k \in Nodes : Thoughts[k].belowCursor <=> (\E c \in at : c <= k)

\* C13: the k-th emitted node has indexDescendant k - 1.
C13_IndexCountsNodes ==
  Linearized => \A k \in Nodes : Thoughts[k].indexDescendant = k - 1

\* the contexts shown under a path in context view
ContextsAt(path) == getContextsSortedAndRanked(store, store.value[head(path)])

\* the emitted nodes whose path is open in context view
ContextViewNodes ==
  {k \in Nodes : isContextViewActive(store, Thoughts[k].path)
                   /\ (expanded(store, Thoughts[k].path)
                         \/ expandHoverDownPaths(store, Thoughts[k].path))}

\* C14: the nodes emitted directly under a node in context view are its
\* contexts, flagged showContexts, and not its children: with every record
\* loaded they are exactly the contexts (none when there is a single context).
C14_ContextsReplaceChildren ==
  Linearized =>
    \A k \in ContextViewNodes :
      LET path == Thoughts[k].path
          contexts == ContextsAt(path)
      IN /\ \A n \in Nodes :
              ParentPath(Thoughts[n].path) = path =>
                /\ Thoughts[n].showContexts
                /\ \E c \in 1..Len(contexts) :
                     Thoughts[n].thought = store.parentOf[contexts[c]]
         /\ store.missing = {} =>
              DirectThoughts(path) =
                IF Len(contexts) = 1 THEN <<>>
                ELSE [c \in 1..Len(contexts) |-> store.parentOf[contexts[c]]]

\* a node in context view with several contexts and a child that is no context
C14_Witness ==
  /\ Linearized
  /\ store.missing = {}
  /\ \E k \in ContextViewNodes :
       /\ Len(DirectThoughts(Thoughts[k].path)) >= 2
       /\ \E c \in ThoughtIds :
            /\ store.parentOf[c] = Thoughts[k].thought
            /\ \A n \in 1..Len(DirectThoughts(Thoughts[k].path)) :
                 DirectThoughts(Thoughts[k].path)[n] # c

\* C15: under a node in context view every context whose parent record is
\* loaded is emitted, whether a context before or after it has no record.
C15_OnlyMissingBranchOmitted ==
  Linearized =>
    \A k \in ContextViewNodes :
      LET path == Thoughts[k].path
          contexts == ContextsAt(path)
      IN Len(contexts) # 1 =>
           \A c \in 1..Len(contexts) :
             store.parentOf[contexts[c]] \notin store.missing =>
               Emitted(appendToPathMemo(path, store.parentOf[contexts[c]]))

RECURSIVE InheritedEnv(_)
\* the bindings parsed along a path, from the root down, a later binding
\* overriding an earlier one
InheritedEnv(path) ==
  IF isRoot(path) THEN parseLet(store, path)
  ELSE spread(InheritedEnv(ParentPath(path)), parseLet(store, path))

\* C16: the env of an emitted node is the bindings inherited by its parent
\* merged with the bindings parsed at its parent (an undefined env has no
\* bindings).
C16_EnvMergesInherited ==
  Linearized =>
    \A k \in Nodes : Thoughts[k].env.map = InheritedEnv(ParentPath(Thoughts[k].path))

----------------------------------------------------------------------------
(* Properties of chain *)

EmptyChain(contextChain) == ~contextChain.defined \/ Len(contextChain.segments) = 0

\* C17: every call of chain with an empty or undefined context chain returns
\* the path it was given, also when the path is the result of an earlier call.
C17_EmptyChainReturnsPath ==
  \A k \in 1..Len(chainOut) :
    EmptyChain(chainOut[k].contextChain) =>
      ~chainOut[k].out.threw /\ chainOut[k].out.path = chainOut[k].path

\* chain was called with an empty context chain on a path with two thoughts,
\* and again on the result
C17_Witness ==
  /\ Len(chainOut) = 2
  /\ chainOut[1].contextChain = [defined |-> TRUE, segments |-> <<>>]
  /\ Len(chainOut[1].path) = 2
  /\ chainOut[2].contextChain = [defined |-> TRUE, segments |-> <<>>]

\* the calls of chain with a context chain that has a segment
MergeCalls == {k \in 1..Len(chainOut) : ~EmptyChain(chainOut[k].contextChain)}

\* the place of the pivot match in the path of a call, counting from 0
MatchAt(k) == findIndex(chainOut[k].path, pivotOf(chainOut[k].contextChain.segments).value)

RECURSIVE IsSubSeq(_, _)
\* the thoughts of a occur in b, in order
IsSubSeq(a, b) ==
  IF Len(a) = 0 THEN TRUE
  ELSE IF Len(b) = 0 THEN FALSE
  ELSE IF a[1] = b[1] THEN IsSubSeq(Tail(a), Tail(b))
  ELSE IsSubSeq(a, Tail(b))

\* C21: when the pivot matches the path at index i, the append tail is the
\* path from index i - 1 (from the start when i = 0) to its end, and the
\* result holds, in order, every thought of the path after the match.
C21_AppendFromBeforePivot ==
  \A k \in MergeCalls :
    MatchAt(k) >= 0 =>
      /\ appendOf(chainOut[k].contextChain.segments, chainOut[k].path)
           = SubSeq(chainOut[k].path, Max(MatchAt(k) - 1, 0) + 1, Len(chainOut[k].path))
      /\ ~chainOut[k].out.threw =>
           IsSubSeq(SubSeq(chainOut[k].path, MatchAt(k) + 2, Len(chainOut[k].path)),
                    chainOut[k].out.path)

\* a segment without its n-th thought (n counts from 1), unchanged when shorter
DropAt(segment, n) ==
  IF Len(segment) < n THEN segment
  ELSE [j \in 1..(Len(segment) - 1) |-> IF j < n THEN segment[j] ELSE segment[j + 1]]

\* the segments of a call followed by its append tail
AllSegments(k) ==
  Append(chainOut[k].contextChain.segments,
         tailOf(chainIn.state, chainOut[k].contextChain.segments, chainOut[k].path))

\* the first segment followed by the later ones, each without its n-th thought
Spliced(k, n) ==
  LET all == AllSegments(k)
  IN flatSegments([j \in 1..Len(all) |-> IF j > 1 THEN DropAt(all[j], n) ELSE all[j]])

----------------------------------------------------------------------------
(* Properties of the positioning pass *)

PositionedNodes == 1..Len(Positioned)

\* C18: the cliff of a node is min(0, depth of the next node - its depth), and
\* -depth - 1 for the last node; it is never positive.
C18_CliffClosesLevels ==
  IsPositioned =>
    \A k \in PositionedNodes :
      /\ Positioned[k].cliff <= 0
      /\ Positioned[k].cliff =
           IF k < Len(Positioned)
           THEN Min(0, Positioned[k + 1].depth - Positioned[k].depth)
           ELSE -Positioned[k].depth - 1

\* a sequence with a node followed by a deeper one and a node followed by a
\* node one level up
C18_Witness ==
  /\ IsPositioned
  /\ \E k \in 1..(Len(Positioned) - 1) : Positioned[k + 1].depth > Positioned[k].depth
  /\ \E k \in 1..(Len(Positioned) - 1) : Positioned[k + 1].depth < Positioned[k].depth

\* the sum of f(j) over the nodes before k
SumBefore(f(_), k) ==
  LET sum[j \in 0..(k - 1)] == IF j = 0 THEN 0 ELSE sum[j - 1] + f(j)
  IN sum[k - 1]

\* C19 as stated: y is the sum of the heights of all nodes before the node,
\* where a height is the cached height, or the estimated single-line height.
C19_YSumsAllHeights ==
  IsPositioned =>
    LET estimatedHeight == layoutIn.fontSize * 2 - 2
        heightOf(j) == IF layoutIn.sizes[j].measured THEN layoutIn.sizes[j].height
                       ELSE estimatedHeight
    IN \A k \in PositionedNodes :
         /\ Positioned[k].height = heightOf(k)
         /\ Positioned[k].y = SumBefore(heightOf, k)

\* C19: y is the sum of the heights of the nodes before the node that are not in
\* column 1 of a table, where a height is the cached height, or the single-line
\* height (measured, else estimated) plus fontSize / 4 at a cliff.
C19_YSumsRowHeights ==
  IsPositioned =>
    LET heightOf(j) ==
          IF layoutIn.sizes[j].measured THEN layoutIn.sizes[j].height
          ELSE singleLineHeight(layoutIn)
                 + (IF Positioned[j].cliff < 0 THEN layoutIn.fontSize \div 4 ELSE 0)
        rowHeightOf(j) == IF Positioned[j].isTableCol1 THEN 0 ELSE heightOf(j)
    IN \A k \in PositionedNodes :
         /\ Positioned[k].height = heightOf(k)
         /\ Positioned[k].y = SumBefore(rowHeightOf, k)

\* a sequence with a cached node, an uncached node at a cliff and a node in
\* column 1 of a table, each before the last node
C19_Witness ==
  /\ IsPositioned
  /\ Positioned[Len(Positioned)].y > 0
  /\ \E k \in 1..(Len(Positioned) - 1) : Positioned[k].isTableCol1
  /\ \E k \in 1..(Len(Positioned) - 1) : layoutIn.sizes[k].measured
  /\ \E k \in 1..(Len(Positioned) - 1) : ~layoutIn.sizes[k].measured /\ Positioned[k].cliff < 0

\* the widest cached width among the visible children of the table with key t,
\* 0 when no child is cached
MaxMeasuredWidth(t) ==
  LET ws == {layoutIn.sizes[j].width :
               j \in {j \in PositionedNodes : parentKeyOf([i \in PositionedNodes |-> Positioned[i].depth], j) = t
                                               /\ layoutIn.sizes[j].measured}}
  IN IF ws = {} THEN 0 ELSE CHOOSE w \in ws : \A v \in ws : v <= w

\* the part of x that a node in column 2 of a table gets from the table
TableOffset(k) ==
  Positioned[k].x
    - (layoutIn.fontSize * (2 * Positioned[k].depth
         + (IF Positioned[k].isTableCol1 THEN -3 ELSE 1))) \div 2

\* C26: where a child of the table is measured, the width of a node in column 1
\* and the x offset of a node in column 2 are the widest measured width among
\* the table's visible children, and neither is more than ten times the font size.
C26_TableCol1WidthIsCappedMax ==
  IsPositioned =>
    \A k \in PositionedNodes :
      LET node == layoutIn.treeThoughts[k]
      IN /\ node.isTableCol1 /\ MaxMeasuredWidth(node.parentKey) > 0 =>
              /\ Positioned[k].width = MaxMeasuredWidth(node.parentKey)
              /\ Positioned[k].width <= 10 * layoutIn.fontSize
         /\ node.isTableCol2 /\ MaxMeasuredWidth(node.grandparentKey) > 0 =>
              /\ TableOffset(k) = MaxMeasuredWidth(node.grandparentKey)
              /\ TableOffset(k) <= 10 * layoutIn.fontSize

\* the x offset of a node in column 2 is the smaller of the widest measured
\* width and ten times the font size, and ten times the font size when no child
\* of the table is measured
TableOffsetIsCapped ==
  IsPositioned =>
    \A k \in PositionedNodes :
      LET node == layoutIn.treeThoughts[k]
          widest == MaxMeasuredWidth(node.grandparentKey)
      IN node.isTableCol2 =>
           TableOffset(k) = IF widest > 0 THEN Min(widest, 10 * layoutIn.fontSize)
                            ELSE 10 * layoutIn.fontSize

\* the width of a node in column 1 is the widest measured width, not capped
TableCol1WidthIsMax ==
  IsPositioned =>
    \A k \in PositionedNodes :
      layoutIn.treeThoughts[k].isTableCol1 =>
        Positioned[k].width = MaxMeasuredWidth(layoutIn.treeThoughts[k].parentKey)

----------------------------------------------------------------------------
(* Properties of undoAction and redoAction *)

----------------------------------------------------------------------------
(* Properties of useSizeTracking *)

\* the last step took the entry of its key out of sizes
Removed == sizing.last.before.measured /\ ~sizing.sizes[sizing.last.key].measured

\* C23: after setSize with a height no removal timeout is pending for the key,
\* and an entry is only removed when a null height was reported for its key
\* after the last measurement.
C23_MeasurementCancelsRemoval ==
  /\ (sizing.last.op = "setSize" /\ sizing.last.height # Null) =>
       sizing.timeouts[sizing.last.key] = NoTimeout
  /\ Removed => sizing.last.sinceNull # NoTimeout

\* setSize with a height for a key whose removal timeout was pending
C23_Witness ==
  /\ sizing.last.op = "setSize"
  /\ sizing.last.height # Null
  /\ sizing.last.timeoutBefore # NoTimeout
  /\ sizing.last.before.measured

\* C24: setSize with a null height leaves sizes as it is; an entry is removed
\* only by the removal timeout, and only when SIZE_REMOVAL_DEBOUNCE ms have
\* passed since the last null height of its key with no measurement after it.
C24_RemovalAfterDelay ==
  /\ (sizing.last.op = "setSize" /\ sizing.last.height = Null) =>
       sizing.sizes[sizing.last.key] = sizing.last.before
  /\ Removed =>
       /\ sizing.last.op = "timeout"
       /\ sizing.last.sinceNull >= SIZE_REMOVAL_DEBOUNCE

\* an entry removed by its removal timeout
C24_Witness ==
  /\ Removed
  /\ sizing.last.op = "timeout"
  /\ sizing.timeouts[sizing.last.key] = NoTimeout

----------------------------------------------------------------------------
(* Properties of the middleware body *)

\* C25: an isSyncing action passes the middleware alone and leaves the
\* debounce timer as it is; no action makes more than two dispatches pass.
C25_IsSyncingIgnored ==
  \A k \in 1..Len(dispatched) :
    /\ Len(dispatched[k].passed) <= 2
    /\ dispatched[k].action = "isSyncing" =>
         /\ dispatched[k].passed = <<"isSyncing">>
         /\ dispatched[k].timerAfter = dispatched[k].timerBefore
         /\ dispatched[k].sinceCallAfter = dispatched[k].sinceCallBefore

\* isSyncing was dispatched while the queue had batches and the timer was running
C25_Witness ==
  /\ Len(dispatched) = 1
  /\ dispatched[1].action = "isSyncing"
  /\ hasSyncs(syncQueue)
  /\ dispatched[1].timerBefore > 0
  /\ dispatched[1].timerBefore < debounceDelay

----------------------------------------------------------------------------
(* Properties of the syncing flag and of the updates a flush passes on *)

\* the promise of flushQueue has not settled for some flush
FlushInFlight == \E i \in FlushIndexes : flushes[i].promise = "pending"

\* C27: isSyncing is true whenever the queue has batches or a flush is in
\* flight; it is false only when nothing is queued and nothing is in flight.
C27_SyncingWhileQueuedOrInFlight ==
  (hasSyncs(syncQueue) \/ FlushInFlight) => isSyncing = TRUE

\* isSyncing is true whenever a batch is queued and no flush was started before
\* it was queued
SyncingWhileFirstQueued ==
  (hasSyncs(syncQueue) /\ flushes = <<>>) => isSyncing = TRUE

\* the options of the sync call made for a destination's merged batch
SyncCall(dest) == syncBatch(Merged[dest])

\* a sync call is made for a destination's merged batch
SyncCalled(dest) == HasKeys(Merged[dest])

\* the merged batch of a destination has key k of a field from queue entry i
PassesFrom(dest, i, field, k) ==
  /\ i \in Group(dest)
  /\ k \in DOMAIN mq[i][field]
  /\ i = Last({j \in Group(dest) : k \in DOMAIN mq[j][field]})

\* C28: no update of a queue entry flagged remote: false is passed to a sync
\* call whose remote option is true, and no update of an entry flagged
\* local: false to a sync call whose local option is true.
C28_FalseFlagKeepsUpdatesOut ==
  Len(mres) = 1 =>
    \A dest \in Dests : SyncCalled(dest) =>
      \A flag \in Dests : SyncCall(dest)[flag] =>
        \A i \in 1..Len(mq) : mq[i][flag] = "false" =>
          \A field \in IndexFields : \A k \in DOMAIN mq[i][field] :
            ~PassesFrom(dest, i, field, k)

\* a sync call has a destination option false when the last entry of its group
\* has the flag false
LastFalseFlagKept ==
  Len(mres) = 1 =>
    \A dest \in Dests : SyncCalled(dest) =>
      \A flag \in Dests :
        mq[Last(Group(dest))][flag] = "false" => ~SyncCall(dest)[flag]

\* key k of a field of a queue entry is passed to a sync call
Passed(field, k) ==
  \E dest \in Dests : SyncCalled(dest) /\ k \in DOMAIN Merged[dest][field]

\* C29: every update of every queue entry whose local and remote flags are not
\* both explicitly false is passed to at least one sync call of the flush.
C29_NoUpdateLost ==
  Len(mres) = 1 =>
    \A i \in 1..Len(mq) :
      ~(mq[i].local = "false" /\ mq[i].remote = "false") =>
        \A field \in IndexFields : \A k \in DOMAIN mq[i][field] : Passed(field, k)

\* every update of every queue entry with a flag that is true is passed to a
\* sync call
NoFlaggedUpdateLost ==
  Len(mres) = 1 =>
    \A i \in 1..Len(mq) :
      (mq[i].local = "true" \/ mq[i].remote = "true") =>
        \A field \in IndexFields : \A k \in DOMAIN mq[i][field] : Passed(field, k)

----------------------------------------------------------------------------
(* Liveness of the flush, checked under SpecLive *)

\* actions of the application never stop arriving
ActionsKeepArriving == []<><<\E action \in LiveActions : Dispatch(action)>>_vars

\* batch id is in the queue
Queued(id) == id \in Ids(syncQueue)

\* batch id was taken from the queue by a flush that dispatched a sync for each
\* destination that a batch of the flush is flagged for
Flushed(id) ==
  /\ ~Queued(id)
  /\ \E i \in FlushIndexes :
       /\ id \in Ids(flushes[i].snap)
       /\ \A dest \in Dests :
            (\E k \in 1..Len(flushes[i].snap) : flushes[i].snap[k][dest] = "true")
              => flushes[i][dest] # "none"

\* C30: unless actions keep arriving for ever, every queued batch is eventually
\* flushed and the queue becomes empty.
C30_EventuallyFlushed ==
  \/ ActionsKeepArriving
  \/ /\ \A id \in 1..MaxBatches : Queued(id) ~> Flushed(id)
     /\ hasSyncs(syncQueue) ~> ~hasSyncs(syncQueue)

\* a flush of two batches: the second postponed the flush of the first
C30_Witness ==
  /\ ~hasSyncs(syncQueue)
  /\ \E i \in FlushIndexes : Len(flushes[i].snap) = 2 /\ flushes[i].local # "none"

----------------------------------------------------------------------------
(* Properties of nextSibling *)

SiblingReturned == sibling.out # <<>>

\* the children of the context that are displayed
VisibleSiblings ==
  {c \in sibling.state.children :
     sibling.state.showHiddenThoughts \/ notHidden(sibling.state, c)}

Alphabetical == sibling.state.sortPreference = "Alphabetical"

\* a is displayed before b
DisplayedBefore(a, b) ==
  IF Alphabetical
  THEN ord(a.value) < ord(b.value) \/ (a.value = b.value /\ a.rank < b.rank)
  ELSE a.rank < b.rank

\* the displayed children that match the arguments
Matching ==
  {c \in VisibleSiblings :
     IF Alphabetical THEN c.value = sibling.value
     ELSE c.value = sibling.value /\ c.rank = sibling.rank}

\* the first displayed child of a set
FirstOf(S) == CHOOSE c \in S : \A d \in S : d = c \/ DisplayedBefore(c, d)

\* the displayed child that follows c, Undefined after the last one
Following(c) ==
  LET after == {d \in VisibleSiblings : DisplayedBefore(c, d)}
  IN IF after = {} THEN Undefined ELSE FirstOf(after)

\* C31: nextSibling returns the visible sibling that follows the matching
\* thought in display order, and undefined when the thought is the last visible
\* sibling or is not among the visible siblings.
C31_NextVisibleSibling ==
  SiblingReturned =>
    sibling.out[1] = IF Matching = {} THEN Undefined ELSE Following(FirstOf(Matching))

\* when the thought is among the visible siblings, nextSibling returns the
\* visible sibling that follows it, and undefined after the last one
NextOfVisibleSibling ==
  (SiblingReturned /\ Matching # {}) => sibling.out[1] = Following(FirstOf(Matching))

\* when the thought is not among the visible siblings, nextSibling returns the
\* first visible sibling
FirstWhenNotVisible ==
  (SiblingReturned /\ Matching = {}) =>
    sibling.out[1] = IF VisibleSiblings = {} THEN Undefined ELSE FirstOf(VisibleSiblings)

====
